---- MODULE Spec2Model ----
(***************************************************************************)
(* Model of app.py: the expense-export to journal-CSV converter.           *)
(*                                                                         *)
(* Texts are sequences of symbols.  A symbol is one character the code     *)
(* inspects (a letter of a marker, a digit, a separator, a blank) or an    *)
(* opaque symbol such as "taxi" that stands for a run of other non-blank   *)
(* characters.  The Japanese literals of the source are written with       *)
(* ASCII stand-ins, one symbol per character:                              *)
(*   the katakana alias of AMEX      <<"<a>","<me>","<xtu>","<ku>","<su>">> *)
(*   the commute marker (3 kanji)    <<"<kou>","<tsuu>","<hi>">>           *)
(*   the out-of-scope tax code       <<"<taishougai>">>                    *)
(* pandas NaN and Python None are the one-symbol texts NaN and PyNone,     *)
(* which no cell text, label or key is equal to.                           *)
(***************************************************************************)
EXTENDS Integers, Sequences, FiniteSets, TLC

VARIABLES
    CONFIG,        \* the process-wide active configuration (app.py:100)
    config_file,   \* config.json: [exists, doc]
    upload,        \* the table _read_base returns for the request's file
    today_key,     \* datetime.now().strftime("%Y%m%d") of the conversion
    pc,            \* position of the convert coroutine
    cats,          \* [amex, keihi, kotsuhi]: the three frames of split_categories
    outputs,       \* the outputs dict of convert, in insertion order
    seq,           \* the voucher sequence counter of convert
    archive,       \* the files written to the zip, in order
    cfg_read,      \* the CONFIG object each stage of convert read
    save_pc,       \* position of the save_settings coroutine
    form,          \* the submitted settings form
    saved,         \* the document save_settings handed to save_config last
    saves          \* number of settings-save requests accepted so far

vars == <<CONFIG, config_file, upload, today_key, pc, cats, outputs, seq,
          archive, cfg_read, save_pc, form, saved, saves>>

-----------------------------------------------------------------------------
(* Bounds of the model. *)

MaxRows == 3          \* rows of an uploaded table (specification Spec)
MaxSaves == 2         \* settings-save requests in one behaviour
MaxSplitRows == 2     \* rows of a table of SpecSplit
MaxVoucherRows == 2   \* rows of a table of SpecVoucher
MaxMemoRows == 1      \* rows of a table of SpecMemo

-----------------------------------------------------------------------------
(* Values and texts *)

NaN == <<"<NaN>">>
PyNone == <<"<None>">>
EmptyStr == <<>>

Blank == " "
Digits == <<"0", "1", "2", "3", "4", "5", "6", "7", "8", "9">>
IsDigit(ch) == \E i \in 1..10 : Digits[i] = ch
DigitVal(ch) == (CHOOSE i \in 1..10 : Digits[i] = ch) - 1

RECURSIVE SeqSum(_)
SeqSum(s) == IF s = <<>> THEN 0 ELSE Head(s) + SeqSum(Tail(s))

\* str.strip(): leading and trailing blanks removed
RECURSIVE LStrip(_)
LStrip(s) == IF s # <<>> /\ Head(s) = Blank THEN LStrip(Tail(s)) ELSE s

RECURSIVE RStrip(_)
RStrip(s) ==
    IF s # <<>> /\ s[Len(s)] = Blank THEN RStrip(SubSeq(s, 1, Len(s) - 1)) ELSE s

Strip(s) == RStrip(LStrip(s))

\* substring test, as re.search of a literal
Contains(s, pat) ==
    \E i \in 1..(Len(s) - Len(pat) + 1) : SubSeq(s, i, i + Len(pat) - 1) = pat

\* case folding of str.contains(..., case=False) on the letters of the marker
FoldCase(ch) ==
    CASE ch = "A" -> "a"
      [] ch = "M" -> "m"
      [] ch = "E" -> "e"
      [] ch = "X" -> "x"
      [] OTHER -> ch

Fold(s) == [i \in 1..Len(s) |-> FoldCase(s[i])]

AMEX == <<"A", "M", "E", "X">>
AmexAlias == <<"<a>", "<me>", "<xtu>", "<ku>", "<su>">>
CommuteMarker == <<"<kou>", "<tsuu>", "<hi>">>
OutOfScope == <<"<taishougai>">>

\* (variant: the match is case-sensitive)
ContainsAmex_CaseSensitive(s) == Contains(s, AMEX) \/ Contains(s, AmexAlias)

\* str.contains("AMEX|<alias>", case=False, na=False)
ContainsAmex(s) == Contains(Fold(s), Fold(AMEX)) \/ Contains(Fold(s), Fold(AmexAlias))

\* str.contains("<commute marker>", na=False): case-sensitive
ContainsCommute(s) == Contains(s, CommuteMarker)

\* _coerce_str on one value: astype(str), then "nan"/"NaT" replaced by ""
StrNan == <<"n", "a", "n">>
StrNaT == <<"N", "a", "T">>
_coerce_str(v) ==
    LET s == IF v = NaN THEN StrNan ELSE v
    IN IF s = StrNan \/ s = StrNaT THEN EmptyStr ELSE s

-----------------------------------------------------------------------------
(* Positional columns and the memo (app.py:130-202) *)

Alphabet == <<"A", "B", "C", "D", "E", "F", "G", "H", "I", "J", "K", "L", "M",
              "N", "O", "P", "Q", "R", "S", "T", "U", "V", "W", "X", "Y", "Z">>

IsLetter(ch) == \E i \in 1..26 : Alphabet[i] = ch
LetterOrd(ch) == CHOOSE i \in 1..26 : Alphabet[i] = ch

\* _col_letter_to_idx: base-26 with A = 1, minus one; non-letters are skipped
RECURSIVE ColVal(_, _)
ColVal(col, val) ==
    IF col = <<>> THEN val
    ELSE ColVal(Tail(col),
                IF IsLetter(Head(col)) THEN val * 26 + LetterOrd(Head(col)) ELSE val)

_col_letter_to_idx(col) == ColVal(Strip(col), 0) - 1

\* row.iloc[idx] of a row whose cells are the sequence `cells` (idx is 0-based)
ILoc(cells, idx) == cells[idx + 1]

_pick_by_letter(cells, letters) ==
    [i \in 1..Len(letters) |->
        LET idx == _col_letter_to_idx(letters[i])
            v == IF 0 <= idx /\ idx < Len(cells) THEN ILoc(cells, idx) ELSE EmptyStr
        IN IF v = NaN THEN EmptyStr ELSE v]

\* sep.join of a list of texts
RECURSIVE Join(_, _)
Join(parts, sep) ==
    IF parts = <<>> THEN <<>>
    ELSE IF Len(parts) = 1 THEN parts[1]
    ELSE parts[1] \o sep \o Join(Tail(parts), sep)

\* (variant: the parts are not trimmed before the empty ones are dropped)
_join_clean_NoStrip(parts, sep) ==
    Join(SelectSeq(parts, LAMBDA p : p # EmptyStr), sep)

_join_clean(parts, sep) ==
    LET stripped == [i \in 1..Len(parts) |-> Strip(parts[i])]
        kept == SelectSeq(stripped, LAMBDA p : p # EmptyStr)
    IN Join(kept, sep)

\* pd.to_datetime(text, errors="coerce") on the texts of the model: a text of the
\* form dddd-dd-dd with a month 1..12 and a day 1..28 is a date, every other text
\* of the model (empty, blank, opaque words, words around d/d) is NaT.
Num2(a, b) == DigitVal(a) * 10 + DigitVal(b)

IsIsoDate(s) ==
    /\ Len(s) = 10
    /\ \A i \in {1, 2, 3, 4, 6, 7, 9, 10} : IsDigit(s[i])
    /\ s[5] = "-" /\ s[8] = "-"
    /\ Num2(s[6], s[7]) \in 1..12
    /\ Num2(s[9], s[10]) \in 1..28

\* "%02d" of a number below 100
Pad2(n) == <<Digits[(n \div 10) + 1], Digits[(n % 10) + 1]>>

\* "{:03d}" of a number below 1000
Pad3(n) == <<Digits[(n \div 100) + 1], Digits[((n \div 10) % 10) + 1], Digits[(n % 10) + 1]>>

IsSep(ch) == ch = "/" \/ ch = "-"

\* re.search(r"(\d{1,2})[/-](\d{1,2})", s): the leftmost match, each group greedy.
\* MatchAt(s, i) is the pair of group values of the match starting at i, or <<>>.
DigitAt(s, i) == i >= 1 /\ i <= Len(s) /\ IsDigit(s[i])
SepAt(s, i) == i >= 1 /\ i <= Len(s) /\ IsSep(s[i])

Group2(s, j) ==
    IF DigitAt(s, j) /\ DigitAt(s, j + 1) THEN Num2(s[j], s[j + 1])
    ELSE DigitVal(s[j])

MatchAt(s, i) ==
    IF DigitAt(s, i) /\ DigitAt(s, i + 1) /\ SepAt(s, i + 2) /\ DigitAt(s, i + 3)
    THEN <<Num2(s[i], s[i + 1]), Group2(s, i + 3)>>
    ELSE IF DigitAt(s, i) /\ SepAt(s, i + 1) /\ DigitAt(s, i + 2)
    THEN <<DigitVal(s[i]), Group2(s, i + 2)>>
    ELSE <<>>

_format_mmdd(val) ==
    IF IsIsoDate(val)
    THEN <<val[6], val[7], "/", val[9], val[10]>>
    ELSE LET hits == {i \in 1..Len(val) : MatchAt(val, i) # <<>>}
         IN IF hits # {}
            THEN LET i == CHOOSE k \in hits : \A j \in hits : k <= j
                     m == MatchAt(val, i)
                 IN Pad2(m[1]) \o <<"/">> \o Pad2(m[2])
            ELSE val

_MEMO_PARTS ==
    [amex    |-> << <<"G">>, <<"C">>, <<"P">> >>,
     keihi   |-> << <<"G">>, <<"C">>, <<"A", "M">>, <<"P">> >>,
     kotsuhi |-> << <<"G">>, <<"C">>, <<"M">>, <<"K">>, <<"P">> >>]

\* the memo of one row (the loop body of build_memo_series)
MemoOfRow(cells, kind) ==
    LET parts == _MEMO_PARTS[kind]
        vals == _pick_by_letter(cells, parts)
        fixed == [i \in 1..Len(parts) |->
                    IF parts[i] = <<"C">> THEN _format_mmdd(vals[i]) ELSE vals[i]]
    IN _join_clean(fixed, <<Blank>>)

\* pd.to_numeric(text, errors="coerce") on the texts of the model: a non-empty run
\* of digits is that number, every other text and NaN is NaN.
RECURSIVE DigitsVal(_, _)
DigitsVal(s, acc) ==
    IF s = <<>> THEN acc ELSE DigitsVal(Tail(s), acc * 10 + DigitVal(Head(s)))

ToNumeric(v) ==
    IF v # NaN /\ v # <<>> /\ \A i \in 1..Len(v) : IsDigit(v[i])
    THEN [nan |-> FALSE, v |-> DigitsVal(v, 0)]
    ELSE [nan |-> TRUE, v |-> 0]

\* pd.to_datetime(v, errors="coerce") then .dt.strftime("%Y-%m-%d")
FormatYmd(v) == IF v # NaN /\ IsIsoDate(v) THEN v ELSE NaN

-----------------------------------------------------------------------------
(* Configuration (app.py:56-100) *)

\* the header texts of DEFAULT_CONFIG["SRC_HEADERS"], one opaque symbol each
Hdr(field) == <<"<" \o field \o ">">>

\* the canonical output columns, DEFAULT_CONFIG["OUTPUT_COLUMNS"], in order:
\* voucher id, date, the six debit columns, the six credit columns, remarks
OUTPUT_COLUMNS ==
    <<"voucher", "date",
      "d_acct", "d_sub", "d_dept", "d_tax", "d_amt", "d_memo",
      "c_acct", "c_sub", "c_dept", "c_tax", "c_amt", "c_memo",
      "remarks">>

TaxIn10 == <<"<katai-shiire-komi-10%>">>
TaxOut10 == <<"<katai-shiire-10%>">>
TaxIn8 == <<"<katai-shiire-komi-keigen-8%>">>
TaxOut8 == <<"<katai-shiire-8%-keigen>">>
TaxExempt == <<"<hikazei>">>

Payable == <<"<miharaikin>">>
EmployeeAdvance == <<"<juugyouin-tatekae>">>
HeadOffice == <<"<honsha>">>

Kinds == <<"amex", "keihi", "kotsuhi">>

DEFAULT_CONFIG ==
    [INPUT_SHEET |-> <<"<data-haritsuke>">>,
     OUTPUT_COLUMNS |-> OUTPUT_COLUMNS,
     SRC_HEADERS |->
        [date |-> Hdr("date"), account |-> Hdr("account"),
         subaccount |-> Hdr("subaccount"), dept |-> Hdr("dept"),
         tax |-> Hdr("tax"), amount |-> Hdr("amount"), memo |-> Hdr("memo"),
         pay_method |-> Hdr("pay_method"), card_brand |-> Hdr("card_brand"),
         ticket_type |-> Hdr("ticket_type")],
     TAX_MAP |->
        (TaxIn10 :> TaxOut10) @@ (TaxIn8 :> TaxOut8)
        @@ (OutOfScope :> OutOfScope) @@ (PyNone :> OutOfScope),
     CREDIT_RULES |->
        [amex    |-> [acct |-> Payable, sub |-> AMEX, dept |-> HeadOffice,
                      tax |-> OutOfScope],
         keihi   |-> [acct |-> Payable, sub |-> EmployeeAdvance, dept |-> HeadOffice,
                      tax |-> OutOfScope],
         kotsuhi |-> [acct |-> Payable, sub |-> EmployeeAdvance, dept |-> HeadOffice,
                      tax |-> OutOfScope]]]

\* json.dump writes an object key that is None as the string "null"
JsonNull == <<"n", "u", "l", "l">>
JsonKey(k) == IF k = PyNone THEN JsonNull ELSE k

\* json.dump of a dict whose keys are texts or None: the members of the JSON
\* object, each key coerced to a string
JsonMembers(d) == {<<JsonKey(k), d[k]>> : k \in DOMAIN d}

\* json.load of a JSON object: the dict of its members (an object with the same
\* key twice, where json.load keeps the later member, does not occur in the model)
JsonDict(members) ==
    [k \in {m[1] : m \in members} |-> (CHOOSE m \in members : m[1] = k)[2]]

\* the document json.dump(data, f) writes: every section with string keys keeps
\* its keys and values, the TAX_MAP is written as the members of its object
JsonDump(data) == [data EXCEPT !.TAX_MAP = JsonMembers(data.TAX_MAP)]

\* json.load(f) of such a document
JsonLoad(doc) == [doc EXCEPT !.TAX_MAP = JsonDict(doc.TAX_MAP)]

NoFile == [exists |-> FALSE, doc |-> <<>>]

load_config(file) == IF file.exists THEN JsonLoad(file.doc) ELSE DEFAULT_CONFIG

save_config(data) == [exists |-> TRUE, doc |-> JsonDump(data)]

\* normalize_tax(name) under the active configuration cfg
normalize_tax(cfg, name) ==
    IF name \in DOMAIN cfg.TAX_MAP THEN cfg.TAX_MAP[name] ELSE name

-----------------------------------------------------------------------------
(* Tables: what _read_base returns.  A frame is [columns, recs]; columns is the
   header, recs the rows in order, each [idx, cells] with idx the index label
   of the row (its 0-based position in the uploaded table) and cells the row's
   values by position. *)

HasColumn(df, name) == \E i \in 1..Len(df.columns) : df.columns[i] = name

ColPos(df, name) == CHOOSE i \in 1..Len(df.columns) : df.columns[i] = name

\* df[name] at one row
Cell(df, rec, name) == rec.cells[ColPos(df, name)]

IsEmptyFrame(df) == df.recs = <<>>

-----------------------------------------------------------------------------
(* split_categories (app.py:165-182) *)

RowIsAmex(cfg, df, rec) ==
    LET h == cfg.SRC_HEADERS
    IN \/ /\ HasColumn(df, h.pay_method)
          /\ ContainsAmex(_coerce_str(Cell(df, rec, h.pay_method)))
       \/ /\ HasColumn(df, h.card_brand)
          /\ ContainsAmex(_coerce_str(Cell(df, rec, h.card_brand)))

RowIsKotsu(cfg, df, rec) ==
    LET h == cfg.SRC_HEADERS
    IN /\ HasColumn(df, h.ticket_type)
       /\ ContainsCommute(_coerce_str(Cell(df, rec, h.ticket_type)))

\* (variant: general-expense is every row that is not corporate-card)
RowIsKeihi_NotAmexOnly(cfg, df, rec) == ~RowIsAmex(cfg, df, rec)

RowIsKeihi(cfg, df, rec) == ~RowIsAmex(cfg, df, rec) /\ ~RowIsKotsu(cfg, df, rec)

split_categories(cfg, table) ==
    LET df == [table EXCEPT !.columns = [i \in 1..Len(table.columns) |->
                                            Strip(table.columns[i])]]
    \* df[mask].copy(): the rows the mask selects, in order, index labels kept
    IN [amex    |-> [df EXCEPT !.recs =
                        SelectSeq(df.recs, LAMBDA r : RowIsAmex(cfg, df, r))],
        keihi   |-> [df EXCEPT !.recs =
                        SelectSeq(df.recs, LAMBDA r : RowIsKeihi(cfg, df, r))],
        kotsuhi |-> [df EXCEPT !.recs =
                        SelectSeq(df.recs, LAMBDA r : RowIsKotsu(cfg, df, r)
                                                      /\ ~RowIsAmex(cfg, df, r))]]

-----------------------------------------------------------------------------
(* build_compound_voucher (app.py:207-239) *)

build_memo_series(df, kind) ==
    [i \in 1..Len(df.recs) |-> MemoOfRow(df.recs[i].cells, kind)]

\* df[h["date"]], df[h["account"]] and df[h["amount"]] are read unguarded:
\* a KeyError when the column is not in the frame
VoucherRaises(cfg, df) ==
    LET h == cfg.SRC_HEADERS
    IN \/ ~HasColumn(df, h.date)
       \/ ~HasColumn(df, h.account)
       \/ ~HasColumn(df, h.amount)

\* deb["d_amt"].sum(skipna=True)
DebitTotal(amounts) ==
    SeqSum([i \in 1..Len(amounts) |-> IF amounts[i].nan THEN 0 ELSE amounts[i].v])

\* [total] + [0] * (len(deb) - 1)
CreditAmounts(total, n) == [i \in 1..n |-> IF i = 1 THEN total ELSE 0]

\* out.reindex(columns=..., fill_value=""): the line with exactly the listed columns
Reindex(line, columns) ==
    [c \in {columns[i] : i \in 1..Len(columns)} |->
        IF c \in DOMAIN line THEN line[c] ELSE EmptyStr]

\* the frame build_compound_voucher returns when it does not raise: its lines in
\* order, each [idx, line] with line a record over the output columns
build_compound_voucher(cfg, df, kind, voucher_id) ==
    LET h == cfg.SRC_HEADERS
        n == Len(df.recs)
        memos == build_memo_series(df, kind)
        amounts == [i \in 1..n |-> ToNumeric(Cell(df, df.recs[i], h.amount))]
        credit == cfg.CREDIT_RULES[kind]
        total == DebitTotal(amounts)
        credit_amounts == CreditAmounts(total, n)
        out == [i \in 1..n |->
                  LET rec == df.recs[i]
                  IN [idx |-> rec.idx,
                      line |-> Reindex(
                        [voucher |-> voucher_id,
                         date |-> FormatYmd(Cell(df, rec, h.date)),
                         d_acct |-> Cell(df, rec, h.account),
                         d_sub |-> IF HasColumn(df, h.subaccount)
                                   THEN Cell(df, rec, h.subaccount) ELSE EmptyStr,
                         d_dept |-> IF HasColumn(df, h.dept)
                                    THEN Cell(df, rec, h.dept) ELSE EmptyStr,
                         d_tax |-> IF HasColumn(df, h.tax)
                                   THEN normalize_tax(cfg, Cell(df, rec, h.tax))
                                   ELSE OutOfScope,
                         d_amt |-> amounts[i],
                         d_memo |-> memos[i],
                         c_acct |-> credit.acct,
                         c_sub |-> credit.sub,
                         c_dept |-> credit.dept,
                         c_tax |-> credit.tax,
                         c_amt |-> credit_amounts[i],
                         c_memo |-> memos[i],
                         remarks |-> EmptyStr],
                        cfg.OUTPUT_COLUMNS)]]
    IN SelectSeq(out, LAMBDA r : ~r.line.d_amt.nan)

-----------------------------------------------------------------------------
(* convert (app.py:416-455).  The coroutine is suspended at its one await,
   file.read(); everything after it runs on the event loop without yielding.
   That synchronous part is modelled in stages (split, one per category, zip)
   so that the CONFIG each stage reads is visible; no other coroutine runs
   between two stages. *)

\* (variant: convert also yields between its stages)
AwaitPoints_EveryStage == {"reading", "amex", "keihi", "kotsuhi", "zip"}

\* the positions at which convert is suspended at an await
AwaitPoints == {"reading"}

\* convert is not running on the event loop
Suspended == pc \in ({"idle", "done", "error"} \cup AwaitPoints)

Prefix == [amex |-> <<"A", "M", "E", "X">>,
           keihi |-> <<"K", "E", "I", "H", "I">>,
           kotsuhi |-> <<"K", "O", "T", "S", "U">>]

\* f"{PREFIX}-{today_key}-{seq:03d}"
VoucherId(kind, today, n) == Prefix[kind] \o <<"-">> \o today \o <<"-">> \o Pad3(n)

\* (variant: the counter is not advanced)
NextSeq_Stuck(n) == n

\* seq += 1
NextSeq(n) == n + 1

NoFrame == [columns |-> <<>>, recs |-> <<>>]

ConvertRequest ==
    /\ pc = "idle"
    /\ pc' = "reading"
    /\ UNCHANGED <<CONFIG, config_file, upload, today_key, cats, outputs, seq,
                   archive, cfg_read, save_pc, form, saved, saves>>

\* raw = await file.read(); df = _read_base(...); split_categories(df);
\* outputs = {}; seq = 1
ConvertSplit ==
    /\ pc = "reading"
    /\ cats' = split_categories(CONFIG, upload)
    /\ outputs' = <<>>
    /\ seq' = 1
    /\ cfg_read' = Append(cfg_read, CONFIG)
    /\ pc' = "amex"
    /\ UNCHANGED <<CONFIG, config_file, upload, today_key, archive, save_pc, form,
                   saved, saves>>

\* if not X_df.empty: outputs[kind] = build_compound_voucher(...); seq += 1
BuildStage(kind, next) ==
    /\ pc = kind
    /\ IF IsEmptyFrame(cats[kind])
       THEN /\ pc' = next
            /\ UNCHANGED <<outputs, seq, cfg_read>>
       ELSE /\ cfg_read' = Append(cfg_read, CONFIG)
            /\ IF VoucherRaises(CONFIG, cats[kind])
               THEN /\ pc' = "error"
                    /\ UNCHANGED <<outputs, seq>>
               ELSE /\ outputs' = Append(outputs,
                          [kind |-> kind,
                           table |-> build_compound_voucher(CONFIG, cats[kind], kind,
                                        VoucherId(kind, today_key, seq))])
                    /\ seq' = NextSeq(seq)
                    /\ pc' = next
    /\ UNCHANGED <<CONFIG, config_file, upload, today_key, cats, archive, save_pc,
                   form, saved, saves>>

ConvertAmex == BuildStage("amex", "keihi")

ConvertKeihi == BuildStage("keihi", "kotsuhi")

ConvertKotsu == BuildStage("kotsuhi", "zip")

\* df_out.to_csv(buf, index=False): the lines without the index labels
ToCsv(table) == [i \in 1..Len(table) |-> table[i].line]

RECURSIVE ConcatAll(_)
ConcatAll(ss) == IF ss = <<>> THEN <<>> ELSE Head(ss) \o ConcatAll(Tail(ss))

\* (variant: a table that is empty after filtering is written like the others)
ZipFiles_KeepEmpty(outs) ==
    LET files == [i \in 1..Len(outs) |->
                    [name |-> outs[i].kind \o "_journal_freee.csv",
                     lines |-> ToCsv(outs[i].table)]]
    IN IF Len(files) > 0
       THEN Append(files,
                [name |-> "merged_all_freee.csv",
                 lines |-> ConcatAll([i \in 1..Len(outs) |-> ToCsv(outs[i].table)])])
       ELSE <<[name |-> "README.txt", lines |-> <<>>]>>

\* the files written to the zip (app.py:436-448)
ZipFiles(outs) ==
    LET kept == SelectSeq(outs, LAMBDA o : o.table # <<>>)
        files == [i \in 1..Len(kept) |->
                    [name |-> kept[i].kind \o "_journal_freee.csv",
                     lines |-> ToCsv(kept[i].table)]]
    IN IF Len(files) > 0
       THEN Append(files,
                [name |-> "merged_all_freee.csv",
                 lines |-> ConcatAll([i \in 1..Len(kept) |-> ToCsv(kept[i].table)])])
       ELSE <<[name |-> "README.txt", lines |-> <<>>]>>

ConvertZip ==
    /\ pc = "zip"
    /\ archive' = ZipFiles(outputs)
    /\ pc' = "done"
    /\ UNCHANGED <<CONFIG, config_file, upload, today_key, cats, outputs, seq,
                   cfg_read, save_pc, form, saved, saves>>

-----------------------------------------------------------------------------
(* save_settings (app.py:388-413) *)

FormKey == [date |-> "h_date", account |-> "h_account", subaccount |-> "h_subaccount",
            dept |-> "h_dept", tax |-> "h_tax", amount |-> "h_amount",
            memo |-> "h_memo", pay_method |-> "h_pay", card_brand |-> "h_card",
            ticket_type |-> "h_ticket"]

\* form.get(key, default)
FormGet(f, key, default) == IF key \in DOMAIN f THEN f[key] ELSE default

\* the document save_settings builds from the loaded one and the form
ApplyForm(cfg, f) ==
    [cfg EXCEPT
        !.SRC_HEADERS = [k \in DOMAIN cfg.SRC_HEADERS |->
            IF k \in DOMAIN FormKey /\ FormKey[k] \in DOMAIN f
            THEN Strip(f[FormKey[k]]) ELSE cfg.SRC_HEADERS[k]],
        !.CREDIT_RULES = [kind \in DOMAIN cfg.CREDIT_RULES |->
            LET cr == cfg.CREDIT_RULES[kind]
            IN [acct |-> FormGet(f, kind \o "_credit_acct", cr.acct),
                sub  |-> FormGet(f, kind \o "_credit_sub", cr.sub),
                dept |-> FormGet(f, kind \o "_credit_dept", cr.dept),
                tax  |-> FormGet(f, kind \o "_credit_tax", cr.tax)]]]

NoForm == <<>>

\* the forms a settings request may carry
Forms ==
    { ("h_account" :> <<Blank, "<account2>", Blank>>),
      ("h_pay" :> Hdr("card_brand")) @@ ("amex_credit_sub" :> <<"<card2>">>)
          @@ ("keihi_credit_dept" :> <<"<branch>">>) @@ ("kotsuhi_credit_tax" :> TaxOut10) }

\* form = await request.form()
SaveRequest ==
    /\ save_pc = "idle"
    /\ saves < MaxSaves
    /\ \E f \in Forms : form' = f
    /\ save_pc' = "form"
    /\ saves' = saves + 1
    /\ UNCHANGED <<CONFIG, config_file, upload, today_key, pc, cats, outputs, seq,
                   archive, cfg_read, saved>>

\* cfg = load_config(); ...; save_config(cfg); CONFIG = load_config()
SaveRun ==
    /\ save_pc = "form"
    /\ Suspended
    /\ LET cfg == ApplyForm(load_config(config_file), form)
           file == save_config(cfg)
       IN /\ saved' = cfg
          /\ config_file' = file
          /\ CONFIG' = load_config(file)
    /\ form' = NoForm
    /\ save_pc' = "idle"
    /\ UNCHANGED <<upload, today_key, pc, cats, outputs, seq, archive, cfg_read, saves>>

-----------------------------------------------------------------------------
(* The uploaded tables of the model.  The export has the logical columns at
   fixed positions and free columns elsewhere; a row is given by the cells that
   matter, every other cell is empty (NaN after read_csv). *)

\* 0-based positions of the logical columns in the export
ColumnAt ==
    [ticket_type |-> 0, pay_method |-> 1, date |-> 2, card_brand |-> 3, account |-> 4,
     subaccount |-> 5, dept |-> 7, tax |-> 8, amount |-> 9, memo |-> 11]

FullWidth == 39

\* the header of an export of the given width in which the logical columns in
\* `missing` carry another label; the amount label carries a leading blank
Header(width, missing) ==
    [i \in 1..width |->
        LET named == {f \in DOMAIN ColumnAt : ColumnAt[f] = i - 1}
        IN IF named # {} /\ named \cap missing = {}
           THEN LET f == CHOOSE x \in named : TRUE
                IN IF f = "amount" THEN <<Blank>> \o Hdr(f) ELSE Hdr(f)
           ELSE <<"<col>">> \o Pad2(i - 1)]

\* the cells of a row from its record r
Cells(r, width) ==
    [i \in 1..width |->
        CASE i - 1 = 0  -> r.ticket
          [] i - 1 = 1  -> r.pay
          [] i - 1 = 2  -> r.date
          [] i - 1 = 3  -> r.card
          [] i - 1 = 4  -> r.account
          [] i - 1 = 5  -> r.sub
          [] i - 1 = 6  -> r.g
          [] i - 1 = 7  -> r.dept
          [] i - 1 = 8  -> r.tax
          [] i - 1 = 9  -> r.amount
          [] i - 1 = 10 -> r.k
          [] i - 1 = 12 -> r.m
          [] i - 1 = 15 -> r.p
          [] i - 1 = 38 -> r.am
          [] OTHER -> NaN]

Table(rows, width, missing) ==
    [columns |-> Header(width, missing),
     recs |-> [i \in 1..Len(rows) |-> [idx |-> i - 1, cells |-> Cells(rows[i], width)]]]

SeqsUpTo(S, n) == UNION {[1..k -> S] : k \in 0..n}

Date1 == <<"2", "0", "2", "5", "-", "1", "0", "-", "0", "2">>
Amt1000 == <<"1", "0", "0", "0">>
Amt2500 == <<"2", "5", "0", "0">>
AmtBad == <<"1", ",", "0", "0", "0">>

BaseRow ==
    [ticket |-> NaN, pay |-> NaN, date |-> Date1, card |-> NaN,
     account |-> <<"<travel>">>, sub |-> NaN, g |-> <<"<payee>">>,
     dept |-> <<"<sales>">>, tax |-> TaxIn10, amount |-> Amt1000,
     k |-> NaN, m |-> NaN, p |-> <<"<note>">>, am |-> NaN]

AmexRow == [BaseRow EXCEPT !.pay = AMEX]
KotsuRow == [BaseRow EXCEPT !.ticket = CommuteMarker, !.amount = Amt2500]
BadRow == [BaseRow EXCEPT !.amount = AmtBad]

\* specification Spec: rows of every category, one with an invalid amount
MainTables ==
    {Table(rows, FullWidth, {}) : rows \in SeqsUpTo({AmexRow, BaseRow, KotsuRow, BadRow}, MaxRows)}

Today == <<"2", "0", "2", "5", "1", "0", "0", "2">>

\* the configuration file at process start: absent, or written by an earlier save
FilesAtStart == {NoFile, save_config(DEFAULT_CONFIG)}

InitWith(tables, files) ==
    /\ config_file \in files
    /\ CONFIG = load_config(config_file)
    /\ upload \in tables
    /\ today_key = Today
    /\ pc = "idle"
    /\ cats = [amex |-> NoFrame, keihi |-> NoFrame, kotsuhi |-> NoFrame]
    /\ outputs = <<>>
    /\ seq = 0
    /\ archive = <<>>
    /\ cfg_read = <<>>
    /\ save_pc = "idle"
    /\ form = NoForm
    /\ saved = DEFAULT_CONFIG
    /\ saves = 0

Init == InitWith(MainTables, FilesAtStart)

NextConvert ==
    \/ ConvertRequest
    \/ ConvertSplit
    \/ ConvertAmex
    \/ ConvertKeihi
    \/ ConvertKotsu
    \/ ConvertZip

Next ==
    \/ NextConvert
    \/ SaveRequest
    \/ SaveRun

Spec == Init /\ [][Next]_vars

-----------------------------------------------------------------------------
(* Specifications for the pure parts: the same conversion, with no settings
   request, over families of tables that vary the cells the part reads. *)

\* split_categories: the three signal cells of each row, and which of the
\* signal columns the table has
PayCells == {NaN, <<"A", "M", "E">>, <<"<corp>", "a", "M", "e", "x">>}
CardCells == {<<"<visa>">>, <<"<a>", "<me>", "<xtu>", "<ku>", "<su>", "<card>">>}
TicketCells == {NaN, <<"<kou>", "<tsuu>", "<hi>", "<seisan>">>}

SplitRows ==
    {[BaseRow EXCEPT !.pay = p, !.card = c, !.ticket = t] :
        p \in PayCells, c \in CardCells, t \in TicketCells}

SplitTables ==
    {Table(rows, FullWidth, missing) :
        rows \in SeqsUpTo(SplitRows, MaxSplitRows),
        missing \in {{}, {"pay_method"}, {"card_brand"}, {"ticket_type"},
                     {"pay_method", "card_brand", "ticket_type"}}}

InitSplit == InitWith(SplitTables, {NoFile})

SpecSplit == InitSplit /\ [][NextConvert]_vars

\* build_compound_voucher: the amount and the tax label of each row, the
\* category of the table, and which of the debit columns the table has
AmountCells == {Amt1000, Amt2500, AmtBad}
TaxCells == {TaxIn10, TaxExempt, NaN}

VoucherRows(base) ==
    {[base EXCEPT !.amount = a, !.tax = t] : a \in AmountCells, t \in TaxCells}

VoucherTables ==
    {Table(rows, FullWidth, missing) :
        rows \in UNION {SeqsUpTo(VoucherRows(base), MaxVoucherRows) :
                            base \in {AmexRow, BaseRow, KotsuRow}},
        missing \in {{}, {"account"}, {"subaccount", "dept"}, {"tax"}}}

InitVoucher == InitWith(VoucherTables, FilesAtStart)

SpecVoucher == InitVoucher /\ [][NextConvert]_vars

\* the memo: the cells at the memo positions, the width of the rows and the
\* category of the table
DateCells == {Date1, <<"<on>", Blank, "9", "/", "5">>, <<"<soon>">>, NaN}
GCells == {<<Blank, "<payee>", Blank>>, NaN}
PCells == {<<"<note>">>, <<Blank>>}
AmCells == {NaN, <<"<item>", Blank, "<x2>">>}

MemoRows(base) ==
    {[base EXCEPT !.date = d, !.g = g, !.p = q, !.am = a,
                  !.k = <<"<rail>">>, !.m = <<"<from>", Blank>>] :
        d \in DateCells, g \in GCells, q \in PCells, a \in AmCells}

MemoWidths == {FullWidth, 16, 12, 10}

MemoTables ==
    {Table(rows, width, {}) :
        rows \in UNION {SeqsUpTo(MemoRows(base), MaxMemoRows) :
                            base \in {AmexRow, BaseRow, KotsuRow}},
        width \in MemoWidths}

InitMemo == InitWith(MemoTables, {NoFile})

SpecMemo == InitMemo /\ [][NextConvert]_vars

-----------------------------------------------------------------------------
(* Properties *)

Range(f) == {f[i] : i \in DOMAIN f}

KindSet == {"amex", "keihi", "kotsuhi"}

SplitDone == pc \in {"amex", "keihi", "kotsuhi", "zip", "done", "error"}

\* the uploaded row with index label ix
UploadRow(ix) == upload.recs[ix + 1]

\* the uploaded cell of row ix under the (stripped) label `name`, NaN when the
\* table has no such column
UploadCell(ix, name) ==
    LET hits == {i \in 1..Len(upload.columns) : Strip(upload.columns[i]) = name}
    IN IF hits = {} THEN NaN ELSE UploadRow(ix).cells[CHOOSE i \in hits : TRUE]

UploadHas(name) == \E i \in 1..Len(upload.columns) : Strip(upload.columns[i]) = name

IdxOf(df) == {df.recs[i].idx : i \in 1..Len(df.recs)}

\* a text that is a non-empty run of digits
IsAmountText(v) == v # NaN /\ Len(v) > 0 /\ \A i \in 1..Len(v) : v[i] \in Range(Digits)

\* sums over the lines of a returned table
RECURSIVE CreditSum(_)
CreditSum(t) == IF t = <<>> THEN 0 ELSE Head(t).line.c_amt + CreditSum(Tail(t))

RECURSIVE DebitSum(_)
DebitSum(t) ==
    IF t = <<>> THEN 0
    ELSE (IF Head(t).line.d_amt.nan THEN 0 ELSE Head(t).line.d_amt.v) + DebitSum(Tail(t))

\* C1: in every table build_compound_voucher returned, the credit amounts sum
\* to the sum of the debit amounts, the whole total sits on the first surviving
\* line and every other surviving line has credit amount 0 -- also when the
\* first input row of the category has an unparseable amount.
C1_CreditBalancesDebit ==
    \A o \in Range(outputs) :
        /\ CreditSum(o.table) = DebitSum(o.table)
        /\ o.table # <<>> => o.table[1].line.c_amt = DebitSum(o.table)
        /\ \A j \in 2..Len(o.table) : o.table[j].line.c_amt = 0

\* C2: the three frames split_categories returns are pairwise disjoint, their
\* union is the input row set, each keeps the input order and the rows
\* themselves -- whichever of the three signal columns the table has.
C2_SplitIsOrderedPartition ==
    SplitDone =>
        /\ IdxOf(cats.amex) \cap IdxOf(cats.keihi) = {}
        /\ IdxOf(cats.amex) \cap IdxOf(cats.kotsuhi) = {}
        /\ IdxOf(cats.keihi) \cap IdxOf(cats.kotsuhi) = {}
        /\ IdxOf(cats.amex) \cup IdxOf(cats.keihi) \cup IdxOf(cats.kotsuhi)
              = {i - 1 : i \in 1..Len(upload.recs)}
        /\ \A k \in KindSet :
              /\ \A i \in 1..Len(cats[k].recs) : \A j \in 1..Len(cats[k].recs) :
                    i < j => cats[k].recs[i].idx < cats[k].recs[j].idx
              /\ \A i \in 1..Len(cats[k].recs) :
                    cats[k].recs[i] = UploadRow(cats[k].recs[i].idx)

C2_Witness ==
    /\ pc = "done"
    /\ Len(upload.recs) = 2
    /\ ~UploadHas(CONFIG.SRC_HEADERS.card_brand)
    /\ Len(cats.amex.recs) = 1
    /\ Len(cats.kotsuhi.recs) = 1
    /\ cats.kotsuhi.recs[1].idx = 0

\* the corporate-card marker in any letter case, or its alias, occurs in v
HasCardMarker(v) ==
    /\ v # NaN
    /\ \/ \E i \in 1..Len(v) - 3 :
             /\ v[i] \in {"A", "a"} /\ v[i + 1] \in {"M", "m"}
             /\ v[i + 2] \in {"E", "e"} /\ v[i + 3] \in {"X", "x"}
       \/ \E i \in 1..Len(v) - 4 :
             /\ v[i] = "<a>" /\ v[i + 1] = "<me>" /\ v[i + 2] = "<xtu>"
             /\ v[i + 3] = "<ku>" /\ v[i + 4] = "<su>"

HasCommuteMarker(v) ==
    /\ v # NaN
    /\ \E i \in 1..Len(v) - 2 : v[i] = "<kou>" /\ v[i + 1] = "<tsuu>" /\ v[i + 2] = "<hi>"

RowHasCardMarker(ix) ==
    \/ HasCardMarker(UploadCell(ix, CONFIG.SRC_HEADERS.pay_method))
    \/ HasCardMarker(UploadCell(ix, CONFIG.SRC_HEADERS.card_brand))

\* C3: a row whose payment-method or card-brand field contains the card marker
\* is corporate-card and nothing else, even with the commute marker in its
\* ticket type; a commute row carries the commute marker and no card marker.
C3_CardTakesPriority ==
    SplitDone =>
        \A i \in 1..Len(upload.recs) :
            /\ RowHasCardMarker(i - 1) =>
                  /\ i - 1 \in IdxOf(cats.amex)
                  /\ i - 1 \notin IdxOf(cats.keihi) \cup IdxOf(cats.kotsuhi)
            /\ i - 1 \in IdxOf(cats.kotsuhi) =>
                  /\ HasCommuteMarker(UploadCell(i - 1, CONFIG.SRC_HEADERS.ticket_type))
                  /\ ~RowHasCardMarker(i - 1)

C3_Witness ==
    /\ pc = "done"
    /\ \E i \in 1..Len(upload.recs) :
          /\ UploadCell(i - 1, CONFIG.SRC_HEADERS.pay_method) = <<"<corp>", "a", "M", "e", "x">>
          /\ HasCommuteMarker(UploadCell(i - 1, CONFIG.SRC_HEADERS.ticket_type))
          /\ i - 1 \in IdxOf(cats.amex)
    /\ \E i \in 1..Len(upload.recs) : i - 1 \in IdxOf(cats.kotsuhi)

\* C4: the debit tax code of every line is the map's value for the row's tax
\* label when the label is a key of the map, and the out-of-scope code in every
\* other case (label not a key, value missing, tax column absent).
C4_TaxCodeDefaultsToOutOfScope ==
    \A o \in Range(outputs) : \A r \in Range(o.table) :
        LET label == UploadCell(r.idx, CONFIG.SRC_HEADERS.tax)
        IN r.line.d_tax =
              IF UploadHas(CONFIG.SRC_HEADERS.tax) /\ label \in DOMAIN CONFIG.TAX_MAP
              THEN CONFIG.TAX_MAP[label]
              ELSE OutOfScope

\* C5: save_config(c) followed by load_config() returns c, field for field,
\* for every document the store can hold, the built-in default included.
C5_SaveLoadRoundTrip ==
    (saves > 0 /\ save_pc = "idle") => CONFIG = saved

\* C6: build_compound_voucher never fails because the configured account,
\* sub-account or department column is absent: the debit field of every line
\* is then the empty string and a journal table is still returned.
C6_MissingColumnIsEmptyField ==
    LET h == CONFIG.SRC_HEADERS
    IN (UploadHas(h.date) /\ UploadHas(h.amount)) =>
          /\ pc # "error"
          /\ \A o \in Range(outputs) : \A r \in Range(o.table) :
                /\ ~UploadHas(h.account) => r.line.d_acct = EmptyStr
                /\ ~UploadHas(h.subaccount) => r.line.d_sub = EmptyStr
                /\ ~UploadHas(h.dept) => r.line.d_dept = EmptyStr

\* the configuration the conversion read when it split the table
ConvCfg == cfg_read[1]

PrefixText(kind) ==
    CASE kind = "amex" -> <<"A", "M", "E", "X">>
      [] kind = "keihi" -> <<"K", "E", "I", "H", "I">>
      [] kind = "kotsuhi" -> <<"K", "O", "T", "S", "U">>

\* the identifier with sequence number n (below 10) of a category
ExpectedId(kind, n) ==
    PrefixText(kind) \o <<"-">> \o today_key \o <<"-", "0", "0", Digits[n + 1]>>

KindRank(kind) == CHOOSE i \in 1..3 : Kinds[i] = kind

\* C7: within one conversion each non-empty category gets one identifier shared
\* by all its lines, an empty category gets none and consumes no number, the
\* identifiers of different categories differ, and the numbers assigned in the
\* order card, expense, commute are 1, 2, ... without a gap.
C7_VoucherIdsConsecutive ==
    pc = "done" =>
        /\ {o.kind : o \in Range(outputs)} = {k \in KindSet : cats[k].recs # <<>>}
        /\ seq = Len(outputs) + 1
        /\ \A i \in 1..Len(outputs) :
              /\ \A r \in Range(outputs[i].table) :
                    r.line.voucher = ExpectedId(outputs[i].kind, i)
              /\ \A j \in 1..Len(outputs) :
                    i < j =>
                        /\ KindRank(outputs[i].kind) < KindRank(outputs[j].kind)
                        /\ \A r \in Range(outputs[i].table), q \in Range(outputs[j].table) :
                              r.line.voucher # q.line.voucher

C7_Witness ==
    /\ pc = "done"
    /\ cats.keihi.recs = <<>>
    /\ Len(outputs) = 2
    /\ outputs[1].table # <<>>
    /\ outputs[2].kind = "kotsuhi"
    /\ outputs[2].table # <<>>
    /\ outputs[2].table[1].line.voucher = ExpectedId("kotsuhi", 2)

\* the rows of a category whose amount is a number
ValidRows(kind) ==
    SelectSeq(cats[kind].recs,
              LAMBDA r : IsAmountText(UploadCell(r.idx, ConvCfg.SRC_HEADERS.amount)))

LiveKinds == SelectSeq(Kinds, LAMBDA k : ValidRows(k) # <<>>)

FileName(kind) ==
    CASE kind = "amex" -> "amex_journal_freee.csv"
      [] kind = "keihi" -> "keihi_journal_freee.csv"
      [] kind = "kotsuhi" -> "kotsuhi_journal_freee.csv"

RECURSIVE LinesOfFiles(_)
LinesOfFiles(files) ==
    IF files = <<>> THEN <<>> ELSE Head(files).lines \o LinesOfFiles(Tail(files))

\* C8: the archive holds the placeholder alone exactly when no category has a
\* surviving line; otherwise one journal file per category with surviving
\* lines (none for a category whose table is empty after filtering) and a merged
\* file with those lines concatenated in the order card, expense, commute.
C8_ArchiveContents ==
    pc = "done" =>
        IF LiveKinds = <<>>
        THEN /\ Len(archive) = 1
             /\ archive[1].name = "README.txt"
        ELSE /\ Len(archive) = Len(LiveKinds) + 1
             /\ \A i \in 1..Len(LiveKinds) :
                   /\ archive[i].name = FileName(LiveKinds[i])
                   /\ Len(archive[i].lines) = Len(ValidRows(LiveKinds[i]))
                   /\ \A l \in Range(archive[i].lines) :
                         \E n \in 1..3 : l.voucher = ExpectedId(LiveKinds[i], n)
             /\ archive[Len(archive)].name = "merged_all_freee.csv"
             /\ archive[Len(archive)].lines
                   = LinesOfFiles(SubSeq(archive, 1, Len(archive) - 1))
             /\ \A f \in Range(archive) : f.name # "README.txt"

C8_Witness ==
    /\ pc = "done"
    /\ Len(outputs) = 2
    /\ outputs[1].table = <<>>
    /\ Len(archive) = 2
    /\ archive[1].name = "kotsuhi_journal_freee.csv"

\* 0-based positions of the memo columns of each category
MemoPositions ==
    [amex |-> <<6, 2, 15>>, keihi |-> <<6, 2, 38, 15>>, kotsuhi |-> <<6, 2, 12, 10, 15>>]

\* the text at a position of a row: empty beyond the row's width or when missing
RawAt(cells, pos) ==
    IF pos < Len(cells) /\ cells[pos + 1] # NaN THEN cells[pos + 1] ELSE EmptyStr

\* the non-empty texts joined by one blank, in order
RECURSIVE JoinKept(_)
JoinKept(parts) ==
    IF parts = <<>> THEN <<>>
    ELSE IF Head(parts) = <<>> THEN JoinKept(Tail(parts))
    ELSE LET rest == JoinKept(Tail(parts))
         IN IF rest = <<>> THEN Head(parts) ELSE Head(parts) \o <<Blank>> \o rest

RawMemo(cells, kind) ==
    JoinKept([i \in 1..Len(MemoPositions[kind]) |->
                Strip(RawAt(cells, MemoPositions[kind][i]))])

FormattedMemo(cells, kind) ==
    JoinKept([i \in 1..Len(MemoPositions[kind]) |->
                LET pos == MemoPositions[kind][i]
                IN Strip(IF pos = 2 THEN _format_mmdd(RawAt(cells, pos))
                         ELSE RawAt(cells, pos))])

\* C9 as stated: the memo is the values at the category's positions, trimmed,
\* the empty ones dropped, joined by one blank; the same text is the debit and
\* the credit memo.
C9_MemoIsRawValues ==
    \A o \in Range(outputs) : \A r \in Range(o.table) :
        /\ r.line.d_memo = RawMemo(UploadRow(r.idx).cells, o.kind)
        /\ r.line.c_memo = r.line.d_memo

\* C9 amended: the same, with the value at position C first rewritten by
\* _format_mmdd (MM/DD for a date, unchanged for a text that holds none).
C9_MemoIsFormattedValues ==
    \A o \in Range(outputs) : \A r \in Range(o.table) :
        /\ r.line.d_memo = FormattedMemo(UploadRow(r.idx).cells, o.kind)
        /\ r.line.c_memo = r.line.d_memo

C9_Witness ==
    /\ pc = "done"
    /\ Len(upload.columns) = 12
    /\ \E o \in Range(outputs) :
          /\ o.kind = "kotsuhi"
          /\ \E r \in Range(o.table) :
                /\ UploadRow(r.idx).cells[7] = <<Blank, "<payee>", Blank>>
                /\ r.line.d_memo = <<"<payee>", Blank, "1", "0", "/", "0", "2", Blank, "<rail>">>
                /\ r.line.c_memo = r.line.d_memo

\* C10: a conversion reads one single version of the configuration in all its
\* stages, whatever settings requests arrive meanwhile, and after a save has
\* completed the active configuration is the persisted document.
C10_OneConfigPerConversion ==
    /\ \A i \in 1..Len(cfg_read) : cfg_read[i] = cfg_read[1]
    /\ (saves > 0 /\ save_pc = "idle") =>
          /\ config_file.exists
          /\ CONFIG = JsonLoad(config_file.doc)

C10_Witness ==
    /\ pc = "zip"
    /\ Len(cfg_read) = 3
    /\ save_pc = "form"
    /\ saves = 2
    /\ CONFIG # DEFAULT_CONFIG
    /\ CONFIG # JsonLoad(JsonDump(DEFAULT_CONFIG))

====
